---------------------------- MODULE Spec2Model ----------------------------
(***************************************************************************)
(* A model of the gaming news agent (src/main.py): the company-data file   *)
(* and its read-modify-write helpers, the run_news_agent pipeline, the     *)
(* "Fetch Summary" handler, the weekly refresh_all job, the watch-list     *)
(* file and the per-session scheduler start guard.                         *)
(*                                                                         *)
(* Three specifications share the variables:                               *)
(*   Spec      the script thread of one UI session ("ui") and the job      *)
(*             thread of one scheduler ("sched") running the pipeline      *)
(*             against the shared company-data file;                       *)
(*   SpecSess  script reruns of several UI sessions, the watch-list file,  *)
(*             the scheduler start guard and the weekly trigger;           *)
(*   SpecWL    save_watchlist / load_watchlist on arbitrary lists, and     *)
(*             the script's "Add to Watch-List" handler.                   *)
(*                                                                         *)
(* Company names are modelled by their rank in Python's string order, so   *)
(* sorted() is the numeric sort.  The values the language model returns    *)
(* are opaque: a value is the token <<process, run>> of the run that       *)
(* fetched it.                                                             *)
(***************************************************************************)
EXTENDS Integers, Sequences, FiniteSets, TLC

\* ------------------------------------------------------------------ bounds
NumCompanies == 2   \* distinct company names
MaxFetches == 1     \* "Fetch Summary" clicks of the UI session (Spec)
MaxTriggers == 1    \* weekly triggers of the scheduler job (Spec)
NumSessions == 2    \* UI sessions of the process (SpecSess)
MaxRuns == 2        \* script runs per UI session (SpecSess, SpecWL)
MaxWeeks == 1       \* weekly cron instants (SpecSess)
MaxLen == 4         \* length of the lists handed to save_watchlist (SpecWL)

Company == 1..NumCompanies
Proc == {"ui", "sched"}
Session == 1..NumSessions

VARIABLES
    \* ---- Spec: the company-data file and the two threads
    file,        \* what load_company_data returns for company_data.json now
    pc,          \* each thread's position
    comp,        \* the company of the thread's current pipeline run
    stage,       \* 1..4: the extraction stages, 5: the final summary
    all_data,    \* the local all_data of the save_* call in progress
    torn,        \* another writer wrote since this call read the file
    ts,          \* the timestamp taken for the final summary
    run,         \* ui: fetches begun; sched: triggers begun
    idx,         \* refresh_all's position in its watchlist
    job_list,    \* the list object refresh_all's closure holds
    \* ---- Spec: history
    trace,       \* the calls of the thread's current pipeline run, in order
    failedAt,    \* the stage whose call raised in the current run (0: none)
    logged,      \* companies whose exception the caller's except clause took
    completed,   \* companies with a run that completed all five stages
    attempted,   \* companies refresh_all has called the pipeline for
    pipeOK,      \* companies of the batch whose pipeline returned
    otherSaved,  \* another thread was in a save_* call during the batch
    racedIO,     \* some read fell into a write, or some write was garbled
    \* ---- SpecSess / SpecWL
    watchFile,   \* what load_watchlist returns for watchlist.json now
    started,     \* per session: "_scheduler_started" in st.session_state
    sessRuns,    \* per session: script runs so far
    schedulers,  \* the BackgroundSchedulers started, with their closures
    weeks,       \* weekly cron instants so far
    batches,     \* per job run at the last cron instant: the companies tried
    lastAdd,     \* the last "Add to Watch-List": name, file before, file after
    wl_in,       \* SpecWL: the list handed to save_watchlist
    wl_out,      \* SpecWL: the list load_watchlist returned
    wl_pc        \* SpecWL: "in", "saved", "loaded"

pipeVars == <<file, pc, comp, stage, all_data, torn, ts, run, idx,
              job_list, trace, failedAt, logged, completed, attempted,
              pipeOK, otherSaved, racedIO>>
sessVars == <<watchFile, started, sessRuns, schedulers, weeks, batches,
              lastAdd>>
wlVars == <<wl_in, wl_out, wl_pc>>
vars == <<pipeVars, sessVars, wlVars>>

\* ----------------------------------------------------------------- helpers
Range(s) == {s[i] : i \in 1..Len(s)}

RECURSIVE SeqsUpTo(_, _)
\* All sequences over S of length at most n.
SeqsUpTo(S, n) ==
    IF n = 0 THEN {<<>>}
    ELSE LET shorter == SeqsUpTo(S, n - 1)
         IN shorter \cup {Append(s, x) : s \in {t \in shorter : Len(t) = n - 1}, x \in S}

IsSorted(s) == \A i \in 1..Len(s) - 1 : s[i] < s[i + 1]

RECURSIVE sorted(_)
\* Python's sorted() of a set: ascending order.
sorted(S) ==
    IF S = {} THEN <<>>
    ELSE LET m == CHOOSE x \in S : \A y \in S : x <= y
         IN <<m>> \o sorted(S \ {m})

\* The lists watchlist.json can hold: save_watchlist is its only writer.
SortedLists == {sorted(S) : S \in SUBSET Company}

\* ------------------------------------------------- the company-data file
EmptyStore == [c \in {} |-> 0]

HasKey(store, c, k) == c \in DOMAIN store /\ k \in DOMAIN store[c]

\* all_data[c][k] = v, after all_data[c] exists.
SetKey(store, c, k, v) ==
    [d \in DOMAIN store |->
        IF d = c THEN [j \in DOMAIN store[c] \cup {k} |->
                          IF j = k THEN v ELSE store[c][j]]
        ELSE store[d]]

\* load_company_data (lines 143-152): the parsed file, or {} when the file
\* is missing or does not parse.  write_text truncates the file when it
\* opens it and fills it when it closes it, so a read that falls into
\* another thread's write finds no JSON and yields {}.  `file` is the
\* content the last completed write left; midWrite says whether another
\* thread may be inside its write_text.
load_company_data(midWrite) ==
    IF midWrite THEN {file, EmptyStore} ELSE {file}

\* save_intermediate_data without the "if company not in all_data" guard:
\* the record is created anew on every call.
si_update_fresh(store, c, k, v) ==
    [d \in DOMAIN store \cup {c} |->
        IF d = c THEN [j \in {k} |-> v] ELSE store[d]]

\* save_intermediate_data, lines 174-176: create the record if it is
\* missing, then set the key.
si_update(store, c, k, v) ==
    LET withRec == IF c \notin DOMAIN store
                   THEN [d \in DOMAIN store \cup {c} |->
                            IF d = c THEN EmptyStore ELSE store[d]]
                   ELSE store
    IN SetKey(withRec, c, k, v)

\* save_company_data, line 158: all_data[company] must exist (KeyError).
sc_raises(store, c) == c \notin DOMAIN store

\* save_company_data assigning the record instead of its key:
\* all_data[company] = {"final_summary": data}.
sc_update_record(store, c, v) ==
    [d \in DOMAIN store |->
        IF d = c THEN [j \in {"final_summary"} |-> v] ELSE store[d]]

\* save_company_data, line 158: all_data[company]["final_summary"] = data.
sc_update(store, c, v) == SetKey(store, c, "final_summary", v)


\* ------------------------------------------------------ the pipeline (Spec)
\* The key a stage's result is stored under (run_news_agent, lines 183-215).
StageKey(s) ==
    CASE s = 1 -> "personnel"
      [] s = 2 -> "personnel_news"
      [] s = 3 -> "company_details"
      [] s = 4 -> "company_news"
      [] OTHER -> "final_summary"

\* run_news_agent with line 197 not commented out.
SavesStage_all(s) == s \in 1..4

\* The stages run_news_agent saves with save_intermediate_data: lines 184,
\* 189 and 192; the save of company_news (line 197) is commented out.
SavesStage(s) == s \in 1..3

\* What run_news_agent does after stage s is done: the next extraction, and
\* after the fourth the formatting call.
NextCall(s) == IF s < 4 THEN <<"extract", s + 1>> ELSE <<"format", 5>>

\* run_news_agent catching a stage's exception and going on.
Raise_swallowed(s) == NextCall(s)

\* A failed formatting call caught inside run_news_agent, which returns
\* to a caller that saves what it got.
Raise_saveAnyway(s) == IF s = 5 THEN <<"load", 5>> ELSE <<"except", s>>

\* A call of stage s raises: nothing in run_news_agent catches, so control
\* leaves it for the caller's except clause (lines 237, 275).
Raise(s) == <<"except", s>>

\* dt.datetime.now(), to the second (lines 234, 272): a clock that advances
\* with every fetch and every trigger begun.
datetime_now == run["ui"] + run["sched"]

\* The value a run stores: the token of the run that fetched it.
Tok(p) == <<p, run[p]>>

\* The final summary the callers build (lines 232-235 and 270-273).
final_summary(p) == [summary |-> Tok(p), timestamp |-> ts[p]]

\* The thread has read the file in a save_* call and not yet written it.
InCall(p) == pc[p] = "write"

\* refresh_all with its try around the loop instead of inside it: the
\* first exception ends the batch.
Finish_abort(p, tr) ==
    IF p = "sched" /\ idx < Len(job_list) /\ failedAt[p] = 0
    THEN /\ idx' = idx + 1
         /\ comp' = [comp EXCEPT ![p] = job_list[idx + 1]]
         /\ stage' = [stage EXCEPT ![p] = 1]
         /\ pc' = [pc EXCEPT ![p] = "extract"]
         /\ attempted' = Append(attempted, job_list[idx + 1])
         /\ trace' = [trace EXCEPT ![p] = <<>>]
         /\ failedAt' = [failedAt EXCEPT ![p] = 0]
    ELSE /\ pc' = [pc EXCEPT ![p] = "idle"]
         /\ trace' = [trace EXCEPT ![p] = tr]
         /\ UNCHANGED <<idx, comp, stage, attempted, failedAt>>

\* The caller is done with the current company: the Fetch Summary handler
\* returns to the script; refresh_all's for loop takes the next company.
\* tr is the finished run's trace, kept until the thread's next run.
Finish(p, tr) ==
    IF p = "sched" /\ idx < Len(job_list)
    THEN /\ idx' = idx + 1
         /\ comp' = [comp EXCEPT ![p] = job_list[idx + 1]]
         /\ stage' = [stage EXCEPT ![p] = 1]
         /\ pc' = [pc EXCEPT ![p] = "extract"]
         /\ attempted' = Append(attempted, job_list[idx + 1])
         /\ trace' = [trace EXCEPT ![p] = <<>>]
         /\ failedAt' = [failedAt EXCEPT ![p] = 0]
    ELSE /\ pc' = [pc EXCEPT ![p] = "idle"]
         /\ trace' = [trace EXCEPT ![p] = tr]
         /\ UNCHANGED <<idx, comp, stage, attempted, failedAt>>

\* "Fetch Summary" clicked with company_input = c (lines 264-267): the
\* script thread enters run_news_agent(c).
ClickFetch(c) ==
    /\ pc["ui"] = "idle"
    /\ run["ui"] < MaxFetches
    /\ run' = [run EXCEPT !["ui"] = @ + 1]
    /\ comp' = [comp EXCEPT !["ui"] = c]
    /\ stage' = [stage EXCEPT !["ui"] = 1]
    /\ pc' = [pc EXCEPT !["ui"] = "extract"]
    /\ trace' = [trace EXCEPT !["ui"] = <<>>]
    /\ failedAt' = [failedAt EXCEPT !["ui"] = 0]
    /\ logged' = [logged EXCEPT !["ui"] = {}]
    /\ UNCHANGED <<file, all_data, torn, ts, idx, job_list, completed,
                   attempted, pipeOK, otherSaved, racedIO>>
    /\ UNCHANGED <<sessVars, wlVars>>

\* The cron trigger fires refresh_all (lines 226-227): the job thread starts
\* its for loop over the closure's watchlist.
Trigger ==
    /\ pc["sched"] = "idle"
    /\ run["sched"] < MaxTriggers
    /\ run' = [run EXCEPT !["sched"] = @ + 1]
    /\ pipeOK' = {}
    /\ otherSaved' = InCall("ui")
    /\ logged' = [logged EXCEPT !["sched"] = {}]
    /\ IF job_list = <<>>
       THEN /\ attempted' = <<>>
            /\ idx' = 0
            /\ UNCHANGED <<pc, comp, stage>>
       ELSE /\ attempted' = <<job_list[1]>>
            /\ idx' = 1
            /\ comp' = [comp EXCEPT !["sched"] = job_list[1]]
            /\ stage' = [stage EXCEPT !["sched"] = 1]
            /\ pc' = [pc EXCEPT !["sched"] = "extract"]
    /\ trace' = [trace EXCEPT !["sched"] = <<>>]
    /\ failedAt' = [failedAt EXCEPT !["sched"] = 0]
    /\ UNCHANGED <<file, all_data, torn, ts, job_list, completed, racedIO>>
    /\ UNCHANGED <<sessVars, wlVars>>

\* One of the four extraction calls (lines 183, 186, 191, 194): it returns,
\* or it raises.
Extract(p) ==
    /\ pc[p] = "extract"
    /\ trace' = [trace EXCEPT ![p] = Append(@, <<"call", StageKey(stage[p])>>)]
    /\ \/ /\ IF SavesStage(stage[p])
             THEN /\ pc' = [pc EXCEPT ![p] = "load"]
                  /\ stage' = stage
             ELSE /\ pc' = [pc EXCEPT ![p] = NextCall(stage[p])[1]]
                  /\ stage' = [stage EXCEPT ![p] = NextCall(stage[p])[2]]
          /\ UNCHANGED failedAt
       \/ /\ pc' = [pc EXCEPT ![p] = Raise(stage[p])[1]]
          /\ stage' = [stage EXCEPT ![p] = Raise(stage[p])[2]]
          /\ failedAt' = [failedAt EXCEPT ![p] = stage[p]]
    /\ UNCHANGED <<file, comp, all_data, torn, ts, run, idx, job_list,
                   logged, completed, attempted, pipeOK, otherSaved, racedIO>>
    /\ UNCHANGED <<sessVars, wlVars>>

\* The first statement of save_intermediate_data (line 173) or of
\* save_company_data (lines 157-158): all_data = load_company_data(); in
\* save_company_data the subscript all_data[company] then raises KeyError
\* when the record is missing.
Load(p) ==
    /\ pc[p] = "load"
    /\ \E d \in load_company_data(\E q \in Proc \ {p} : InCall(q)) :
          /\ IF stage[p] = 5 /\ sc_raises(d, comp[p])
             THEN /\ pc' = [pc EXCEPT ![p] = "except"]
                  /\ failedAt' = [failedAt EXCEPT ![p] = 6]
                  /\ ts' = [ts EXCEPT ![p] = 0]
                  /\ UNCHANGED all_data
             ELSE /\ pc' = [pc EXCEPT ![p] = "write"]
                  /\ all_data' = [all_data EXCEPT ![p] = d]
                  /\ UNCHANGED <<failedAt, ts>>
          /\ racedIO' = (racedIO \/ d # file)
    /\ torn' = [torn EXCEPT ![p] = FALSE]
    /\ otherSaved' = (otherSaved \/ (p = "ui" /\ pc["sched"] # "idle"
                                        /\ pc'[p] = "write"))
    /\ UNCHANGED <<file, comp, stage, run, idx, job_list, trace,
                   logged, completed, attempted, pipeOK>>
    /\ UNCHANGED <<sessVars, wlVars>>

\* The text a save_* call writes: json.dumps of the updated all_data.
Written(p) ==
    IF stage[p] = 5
    THEN sc_update(all_data[p], comp[p], final_summary(p))
    ELSE si_update(all_data[p], comp[p], StageKey(stage[p]), Tok(p))

\* COMPANY_DATA_FILE.write_text(json.dumps(all_data)) (lines 159, 177),
\* which ends the save_* call.  When another thread wrote the file while
\* this one had it open, this text lands over the other's and a longer tail
\* of the other's text may stay behind it: the file then does not parse and
\* loads as {}.
Write(p) ==
    /\ pc[p] = "write"
    /\ \E garbled \in (IF torn[p] THEN BOOLEAN ELSE {FALSE}) :
          /\ file' = IF garbled THEN EmptyStore ELSE Written(p)
          /\ racedIO' = (racedIO \/ garbled)
    /\ torn' = [q \in Proc |-> IF q # p /\ InCall(q) THEN TRUE ELSE FALSE]
    /\ IF stage[p] = 5
       THEN Finish(p, Append(trace[p], <<"save", "final_summary">>))
       ELSE /\ pc' = [pc EXCEPT ![p] = NextCall(stage[p])[1]]
            /\ stage' = [stage EXCEPT ![p] = NextCall(stage[p])[2]]
            /\ trace' = [trace EXCEPT ![p] =
                            Append(@, <<"save", StageKey(stage[p])>>)]
            /\ UNCHANGED <<idx, comp, attempted, failedAt>>
    /\ all_data' = [all_data EXCEPT ![p] = EmptyStore]
    /\ ts' = [ts EXCEPT ![p] = 0]
    /\ UNCHANGED <<run, job_list, logged, completed, pipeOK, otherSaved>>
    /\ UNCHANGED <<sessVars, wlVars>>

\* The formatting call (lines 209-215): it returns the summary, and the
\* caller takes the timestamp for the dict it hands to save_company_data
\* (lines 230-236, 268-274); or it raises.
Format(p) ==
    /\ pc[p] = "format"
    /\ trace' = [trace EXCEPT ![p] = Append(@, <<"call", "format">>)]
    /\ \/ /\ pc' = [pc EXCEPT ![p] = "load"]
          /\ ts' = [ts EXCEPT ![p] = datetime_now]
          /\ completed' = completed \cup {comp[p]}
          /\ pipeOK' = IF p = "sched" THEN pipeOK \cup {comp[p]} ELSE pipeOK
          /\ UNCHANGED <<stage, failedAt>>
       \/ /\ pc' = [pc EXCEPT ![p] = Raise(stage[p])[1]]
          /\ stage' = [stage EXCEPT ![p] = Raise(stage[p])[2]]
          /\ failedAt' = [failedAt EXCEPT ![p] = 5]
          /\ UNCHANGED <<ts, completed, pipeOK>>
    /\ UNCHANGED <<file, comp, all_data, torn, run, idx, job_list, logged,
                   attempted, otherSaved, racedIO>>
    /\ UNCHANGED <<sessVars, wlVars>>

\* The caller's except clause (lines 237-238: print and go on with the
\* loop; lines 275-276: st.error).  Neither saves anything.
Except(p) ==
    /\ pc[p] = "except"
    /\ logged' = [logged EXCEPT ![p] = @ \cup {comp[p]}]
    /\ Finish(p, trace[p])
    /\ UNCHANGED <<file, all_data, torn, ts, run, job_list, completed,
                   pipeOK, otherSaved, racedIO>>
    /\ UNCHANGED <<sessVars, wlVars>>

\* The other specifications' variables, at rest.
SessIdle ==
    /\ watchFile = <<>>
    /\ started = [s \in Session |-> FALSE]
    /\ sessRuns = [s \in Session |-> 0]
    /\ schedulers = <<>>
    /\ weeks = 0
    /\ batches = <<>>
    /\ lastAdd = <<>>

WLIdle == wl_in = <<>> /\ wl_out = <<>> /\ wl_pc = "in"

PipeIdle ==
    /\ file = EmptyStore
    /\ pc = [p \in Proc |-> "idle"]
    /\ comp = [p \in Proc |-> 0]
    /\ stage = [p \in Proc |-> 0]
    /\ all_data = [p \in Proc |-> EmptyStore]
    /\ torn = [p \in Proc |-> FALSE]
    /\ ts = [p \in Proc |-> 0]
    /\ run = [p \in Proc |-> 0]
    /\ idx = 0
    /\ trace = [p \in Proc |-> <<>>]
    /\ failedAt = [p \in Proc |-> 0]
    /\ logged = [p \in Proc |-> {}]
    /\ completed = {}
    /\ attempted = <<>>
    /\ pipeOK = {}
    /\ otherSaved = FALSE
    /\ racedIO = FALSE

\* A fresh process: no company-data file yet; the scheduler was started by
\* the session's first script run with the watch-list loaded then (lines
\* 256, 316-317), which save_watchlist had left sorted and duplicate-free.
Init ==
    /\ PipeIdle
    /\ job_list \in SortedLists
    /\ SessIdle
    /\ WLIdle

Next ==
    \/ \E c \in Company : ClickFetch(c)
    \/ Trigger
    \/ \E p \in Proc : Extract(p)
    \/ \E p \in Proc : Load(p)
    \/ \E p \in Proc : Write(p)
    \/ \E p \in Proc : Format(p)
    \/ \E p \in Proc : Except(p)

Spec == Init /\ [][Next]_vars

\* ----------------------------------------------------- properties of Spec
IsPrefix(a, b) == Len(a) <= Len(b) /\ a = SubSeq(b, 1, Len(a))

\* The calls of a complete pipeline run and of the save that follows it.
ExpectedCalls ==
    << <<"call", "personnel">>, <<"save", "personnel">>,
       <<"call", "personnel_news">>, <<"save", "personnel_news">>,
       <<"call", "company_details">>, <<"save", "company_details">>,
       <<"call", "company_news">>, <<"call", "format">>,
       <<"save", "final_summary">> >>

\* The place of extraction k's call in ExpectedCalls.
CallPos(k) == 2 * k - 1

\* The step ends thread p's save_* call by writing the file.
WriteStep(p) == pc[p] = "write" /\ pc'[p] # "write"

\* No other thread wrote the file between this call's read and now, and
\* the read did not fall into another thread's write: the call has not
\* overlapped another save_* call in any way that shows.
Undisturbed(p) == ~torn[p] /\ all_data[p] = file

\* The value thread p's save_* call in progress stores.
PutValue(p) == IF stage[p] = 5 THEN final_summary(p) ELSE Tok(p)

\* C1: in a run of run_news_agent whose extraction call of stage k raised,
\* that call is the run's last (no later stage is invoked, nothing more is
\* saved, no final_summary is written by the run), control is in the
\* caller's except clause or past it with the company logged, and neither
\* the raising step nor the except clause changes the company-data file.
C1_FailedRunStops ==
    \A p \in Proc :
        failedAt[p] \in 1..4 =>
            /\ trace[p] = SubSeq(ExpectedCalls, 1, CallPos(failedAt[p]))
            /\ pc[p] \in {"except", "idle"}
            /\ (pc[p] = "idle" => comp[p] \in logged[p])

C1_FailureWritesNothing ==
    \A p \in Proc :
        \/ pc[p] = "extract" /\ pc'[p] = "except"
        \/ pc[p] = "except" /\ pc'[p] # "except"
        => file' = file

\* C1, both parts: the state condition in every state, the step condition
\* on every step.
C1_ExtractionFailure ==
    []C1_FailedRunStops /\ [][C1_FailureWritesNothing]_vars

\* C1's case: a fetch failed in an extraction for a company that already
\* had a final_summary, which is still there.
C1_Witness ==
    /\ pc["ui"] = "idle"
    /\ failedAt["ui"] \in 2..4
    /\ HasKey(file, comp["ui"], "final_summary")
    /\ file[comp["ui"]]["final_summary"].summary[1] = "sched"

\* C3: the calls of every run are a prefix of: personnel, save personnel,
\* personnel news, save personnel_news, company details, save
\* company_details, company news, format; each save writes the stage's
\* result under the stage's key (unless the write was garbled by a
\* concurrent writer); and no record ever has a "company_news" key.
C3_TraceInOrder ==
    /\ \A p \in Proc : IsPrefix(trace[p], ExpectedCalls)
    /\ \A c \in DOMAIN file : "company_news" \notin DOMAIN file[c]

C3_SaveWritesKey ==
    \A p \in Proc :
        WriteStep(p) /\ stage[p] \in 1..4 =>
            \/ file' = EmptyStore /\ torn[p]
            \/ /\ HasKey(file', comp[p], StageKey(stage[p]))
               /\ file'[comp[p]][StageKey(stage[p])] = Tok(p)
               /\ trace'[p] = Append(trace[p], <<"save", StageKey(stage[p])>>)

\* C3, both parts: the order of the calls in every state, the effect of
\* each save on every step.
C3_StageOrder == []C3_TraceInOrder /\ [][C3_SaveWritesKey]_vars

\* C3's case: a run went through all its stages and the final save.
C3_Witness == \E p \in Proc : trace[p] = ExpectedCalls

\* Thread p's save_* call runs alone: no other thread is inside a save_*
\* call, and none wrote the file since p's call read it.
C4_Alone(p) ==
    /\ ~torn[p]
    /\ ~\E q \in Proc \ {p} : InCall(q)

\* C4: when a save_company_data call that runs alone ends, the file maps
\* the company to a record whose final_summary is the given value, whether
\* or not the file held a record for the company when the call began.
\* (Only the runs in which every read and write so far was whole are
\* counted, so that the call meets a file that parses.)

C4_SaveFinalInserts ==
    [][\A p \in Proc :
          ( /\ stage[p] = 5
            /\ pc[p] \in {"load", "write"}
            /\ pc'[p] \notin {"load", "write"}
            /\ C4_Alone(p)
            /\ ~racedIO' )
          => /\ HasKey(file', comp[p], "final_summary")
             /\ file'[comp[p]]["final_summary"] = final_summary(p)]_vars

\* C7: a record holds a final_summary only if a run for that company has
\* completed all five stages.
C7_FinalOnlyAfterFullRun ==
    \A c \in DOMAIN file :
        "final_summary" \in DOMAIN file[c] => c \in completed

\* C7's case: some record holds a final_summary.
C7_Witness == \E c \in DOMAIN file : "final_summary" \in DOMAIN file[c]

\* The step ends a batch of refresh_all.
BatchEnds == pc["sched"] # "idle" /\ pc'["sched"] = "idle"

\* The file holds for company c a final_summary {summary, timestamp}
\* written by the scheduler's current trigger.
SavedByTrigger(f, c) ==
    /\ HasKey(f, c, "final_summary")
    /\ DOMAIN f[c]["final_summary"] = {"summary", "timestamp"}
    /\ f[c]["final_summary"].summary = <<"sched", run["sched"]>>

\* C2 (as claimed): when a batch ends, refresh_all has called the pipeline
\* once for every company of its list, in list order, whatever failed on
\* the way, and every company whose pipeline returned and whose save did
\* not fail has a final_summary written by this trigger.  (Only the runs
\* in which every read and write was whole are counted, so that what
\* refutes it is last-write-wins alone.)
C2_EverySuccessSaved ==
    [][BatchEnds /\ ~racedIO' =>
          /\ attempted' = job_list
          /\ \A c \in pipeOK' \ logged'["sched"] :
                SavedByTrigger(file', c)]_vars

\* C2 (amended): the same, the final_summary being promised only when no
\* other thread was inside a save_* call on the file during the batch.
C2_BatchIsolation ==
    [][BatchEnds =>
          /\ attempted' = job_list
          /\ (~otherSaved' =>
                 /\ \A c \in pipeOK' : SavedByTrigger(file', c)
                 /\ Range(job_list) \ pipeOK' \subseteq logged'["sched"])]_vars

\* C2's case: a batch over two companies in which the first failed and was
\* logged, and the second got its final_summary from this trigger.
C2_Witness ==
    /\ pc["sched"] = "idle"
    /\ run["sched"] >= 1
    /\ Len(job_list) >= 2
    /\ attempted = job_list
    /\ ~otherSaved
    /\ job_list[1] \in logged["sched"]
    /\ job_list[1] \notin pipeOK
    /\ job_list[2] \in pipeOK
    /\ SavedByTrigger(file, job_list[2])

\* C6 (as claimed): no step removes a company's record or a key of it.
\* (Only the runs in which every read and write was whole are counted, so
\* that what refutes it is last-write-wins alone.)
C6_NeverDeleted ==
    [][\A p \in Proc :
          WriteStep(p) /\ ~racedIO' =>
             \A c \in DOMAIN file :
                c \in DOMAIN file' /\ DOMAIN file[c] \subseteq DOMAIN file'[c]]_vars

\* C6 (amended): a step changes the file only as the write of a save_*
\* call, and such a write keeps every record and every key of the file
\* unless the call overlapped another one (another thread wrote between
\* its read and its write, or its read fell into another's write).
C6_KeysKeptUnlessOverlapped ==
    [][ /\ file' # file => \E p \in Proc : WriteStep(p)
        /\ \A p \in Proc :
              WriteStep(p) /\ Undisturbed(p) =>
                 \A c \in DOMAIN file :
                    c \in DOMAIN file' /\ DOMAIN file[c] \subseteq DOMAIN file'[c]
      ]_vars

\* C6's case: two records with a final_summary each, written by two
\* threads, the second one without removing the first.
C6_Witness ==
    /\ \A c \in Company : HasKey(file, c, "final_summary")
    /\ \E c, d \in Company :
          /\ file[c]["final_summary"].summary[1] = "ui"
          /\ file[d]["final_summary"].summary[1] = "sched"

\* C10: the write of a save_* call that did not overlap another one stores
\* its value under its company and key and leaves every other value of the
\* file as it was.  (That overlapping calls do lose updates is C10_Witness.)
C10_NoLossWithoutOverlap ==
    [][\A p \in Proc :
          WriteStep(p) /\ Undisturbed(p) =>
             /\ HasKey(file', comp[p], StageKey(stage[p]))
             /\ file'[comp[p]][StageKey(stage[p])] = PutValue(p)
             /\ \A c \in DOMAIN file : \A k \in DOMAIN file[c] :
                   <<c, k>> # <<comp[p], StageKey(stage[p])>> =>
                      HasKey(file', c, k) /\ file'[c][k] = file[c][k]
      ]_vars

\* C10's case, the lost update: every read and write was whole, the UI
\* thread's save_company_data call completed, both threads are done, the
\* scheduler's writes are in the file, and the final_summary the UI thread
\* wrote is not.
C10_Witness ==
    /\ pc["ui"] = "idle" /\ pc["sched"] = "idle"
    /\ ~racedIO
    /\ trace["ui"] = ExpectedCalls
    /\ ~HasKey(file, comp["ui"], "final_summary")
    /\ \E c \in DOMAIN file : \E k \in DOMAIN file[c] : file[c][k] = <<"sched", 1>>

\* ------------------------------- sessions and the watch-list (SpecSess)
\* save_watchlist without sorted(set(...)): json.dumps(watchlist).
save_watchlist_asis(watchlist) == watchlist

\* save_watchlist (lines 139-140): the text written is the JSON array of
\* sorted(set(watchlist)).
save_watchlist(watchlist) == sorted(Range(watchlist))

\* load_watchlist (lines 132-136): the parsed array, [] when the file is
\* missing or does not parse.  `watchFile` already is that list.
load_watchlist == watchFile

\* Line 316: "_scheduler_started" not in st.session_state.  Streamlit keeps
\* one session_state per browser session.
NeedsScheduler(s) == ~started[s]

\* One run of the script for session s (lines 254-318), with company_input
\* = c and the button clicked, if any.  A button can be clicked only once
\* a run has rendered it.  A run with "Fetch Summary" clicked leaves these
\* variables as a run with no button does; its pipeline is Spec's.
ScriptRun(s, c, button) ==
    /\ sessRuns[s] < MaxRuns
    /\ button = "add" => sessRuns[s] >= 1
    /\ LET loaded == load_watchlist
           adds == button = "add" /\ c \notin Range(loaded)
           watchlist == IF adds THEN Append(loaded, c) ELSE loaded
           written == IF adds THEN save_watchlist(watchlist) ELSE watchFile
       IN /\ watchFile' = written
          /\ lastAdd' = IF button = "add" THEN <<c, watchFile, written>>
                        ELSE lastAdd
          /\ IF NeedsScheduler(s)
             THEN /\ schedulers' = Append(schedulers,
                                          [session |-> s, watchlist |-> watchlist])
                  /\ started' = [started EXCEPT ![s] = TRUE]
             ELSE UNCHANGED <<schedulers, started>>
    /\ sessRuns' = [sessRuns EXCEPT ![s] = @ + 1]
    /\ UNCHANGED <<weeks, batches>>
    /\ UNCHANGED <<pipeVars, wlVars>>

\* refresh_all (lines 226-238) over the list its closure holds: the
\* companies it calls the pipeline for.  Whatever a company's run raises
\* is caught, so the loop takes every element.
refresh_all(watchlist) == watchlist

\* Monday 09:00: every scheduler started so far runs its job.
WeeklyTrigger ==
    /\ weeks < MaxWeeks
    /\ weeks' = weeks + 1
    /\ batches' = [j \in 1..Len(schedulers) |->
                      refresh_all(schedulers[j].watchlist)]
    /\ UNCHANGED <<watchFile, started, sessRuns, schedulers, lastAdd>>
    /\ UNCHANGED <<pipeVars, wlVars>>

\* A fresh process; watchlist.json is as an earlier process left it.
InitSess ==
    /\ PipeIdle
    /\ job_list = <<>>
    /\ WLIdle
    /\ watchFile \in SortedLists
    /\ started = [s \in Session |-> FALSE]
    /\ sessRuns = [s \in Session |-> 0]
    /\ schedulers = <<>>
    /\ weeks = 0
    /\ batches = <<>>
    /\ lastAdd = <<>>

NextSess ==
    \/ \E s \in Session, c \in Company, button \in {"none", "add"} :
          ScriptRun(s, c, button)
    \/ WeeklyTrigger

SpecSess == InitSess /\ [][NextSess]_vars

\* C5: at every weekly trigger each job calls the pipeline for every
\* company the watch-list file holds then.
C5_TriggerUsesCurrentWatchlist ==
    [][weeks' = weeks + 1 =>
          \A j \in 1..Len(batches') :
             Range(load_watchlist) \subseteq Range(batches'[j])]_vars

\* C9: whatever the number of script reruns and of sessions, at most one
\* scheduler is ever started, and a weekly trigger runs one batch.
C9_OncePerProcess == Len(schedulers) <= 1 /\ Len(batches) <= 1

\* ------------------------------------------ watch-list round trip (SpecWL)
\* save_watchlist(wl_in).
WLSave ==
    /\ wl_pc = "in"
    /\ watchFile' = save_watchlist(wl_in)
    /\ wl_pc' = "saved"
    /\ UNCHANGED <<wl_in, wl_out>>
    /\ UNCHANGED <<started, sessRuns, schedulers, weeks, batches, lastAdd>>
    /\ UNCHANGED pipeVars

\* wl_out = load_watchlist().
WLLoad ==
    /\ wl_pc = "saved"
    /\ wl_out' = load_watchlist
    /\ wl_pc' = "loaded"
    /\ UNCHANGED wl_in
    /\ UNCHANGED sessVars
    /\ UNCHANGED pipeVars

InitWL ==
    /\ PipeIdle
    /\ job_list = <<>>
    /\ watchFile = <<>>
    /\ started = [s \in Session |-> FALSE]
    /\ sessRuns = [s \in Session |-> 0]
    /\ schedulers = <<>>
    /\ weeks = 0
    /\ batches = <<>>
    /\ lastAdd = <<>>
    /\ wl_in \in SeqsUpTo(Company, MaxLen)
    /\ wl_out = <<>>
    /\ wl_pc = "in"

NextWL ==
    \/ WLSave
    \/ WLLoad
    \/ /\ wl_pc = "loaded"
       /\ \E c \in Company, button \in {"none", "add"} : ScriptRun(1, c, button)

SpecWL == InitWL /\ [][NextWL]_vars

\* C8: what load_watchlist returns after save_watchlist(l) is sorted, has
\* no duplicates and has exactly the names of l; and "Add to Watch-List"
\* with a name the watch-list holds leaves the file as it was (with a new
\* name, the file gets that name too).
C8_RoundTripAndIdempotentAdd ==
    /\ wl_pc = "loaded" =>
          /\ IsSorted(wl_out)
          /\ Cardinality(Range(wl_out)) = Len(wl_out)
          /\ Range(wl_out) = Range(wl_in)
    /\ lastAdd # <<>> =>
          /\ lastAdd[1] \in Range(lastAdd[2]) => lastAdd[3] = lastAdd[2]
          /\ Range(lastAdd[3]) = Range(lastAdd[2]) \cup {lastAdd[1]}
          /\ IsSorted(lastAdd[3])

\* C8's case: a list with a duplicate and out of order went through the
\* round trip, and a name of the watch-list was added again.
C8_Witness ==
    /\ wl_pc = "loaded"
    /\ Len(wl_in) = 3 /\ Cardinality(Range(wl_in)) = 2 /\ wl_in[1] > wl_in[2]
    /\ lastAdd # <<>>
    /\ lastAdd[1] \in Range(lastAdd[2])

=============================================================================
